---- MODULE Spec2Model ----
(***************************************************************************)
(* FormPlay: the TPS report workflow of server/routes.ts over the          *)
(* DatabaseStorage store (server/database-storage.ts, server/db.ts).       *)
(*                                                                         *)
(* The state is the two tables the handlers write (tps_reports, tps_logs), *)
(* the calendar events added per report, the current date, the answer of   *)
(* the latest step and one record per request handler in flight.  Every    *)
(* handler is cut at the awaits that touch a table: a step is one database *)
(* statement together with the synchronous code around it.  Awaits that    *)
(* touch no table (getUserWithPartner on the fixed users table, the        *)
(* console-only sendEmail / addToCalendar, savePdfToDisk) are part of the  *)
(* step of the statement next to them.                                     *)
(***************************************************************************)
EXTENDS Integers, Sequences, FiniteSets, TLC

(* ------------------------------ bounds --------------------------------- *)

\* rows of tps_reports the model lets the handlers insert
MaxReports == 2

\* rows of tps_logs the model lets the handlers insert
MaxLogs == 3

\* the day the requests are served on; request bodies carry day 1
Today == 2

\* the runs of the load-and-render effect a form component starts
MaxRuns == 2

\* the request handlers that can be in flight at the same time
Slots == {"h1", "h2"}

(* ---------------------------- shared/schema ---------------------------- *)

DRAFT == "draft"
PENDING_REVIEW == "pending_review"
PENDING_APPROVAL == "pending_approval"
COMPLETED == "completed"
ABORTED == "aborted"

TpsStatus == {DRAFT, PENDING_REVIEW, PENDING_APPROVAL, COMPLETED, ABORTED}

\* the statuses the PUT handler calls finalized
Terminal == {COMPLETED, ABORTED}

\* the value of a key a JSON body does not carry
Undefined == "undefined"

\* a null integer column (serial ids start at 1)
Null == 0

(* ------------------------------- users --------------------------------- *)

\* matt = 1 and mina = 2 are the seeded pair; 3 is a row added through
\* createUser with no partner_id
Users == {1, 2, 3}

partner_id == [u \in Users |-> IF u = 1 THEN 2 ELSE IF u = 2 THEN 1 ELSE Null]

\* getUserWithPartner: undefined (FALSE) when the user has no partner
HasPartner(u) == partner_id[u] # Null

(* ------------------------------ requests ------------------------------- *)

\* req.params.id as sent, and parseInt of it; NaN is the result for "abc"
RawIds == {"1", "2", "3", "abc"}

NaN == -1

ParseInt(p) ==
    CASE p = "1" -> 1
      [] p = "2" -> 2
      [] p = "3" -> 3
      [] OTHER -> NaN

\* form_data values: a JSON object with or without the emotional_state key
FormPlain == [rest |-> "f1", matt_notes |-> "hi"]
FormFelt == [rest |-> "f1", matt_notes |-> "hi",
             emotional_state |-> [matt |-> "calm", mina |-> "curious"]]

\* bodies of POST /api/tps-reports: two that pass insertTpsReportSchema and
\* one that lacks the required columns
CreateBodies ==
    { [status |-> DRAFT, date |-> 1, time_start |-> "19:00", time_end |-> "21:00",
       location |-> "home", location_other |-> "", sound |-> "music",
       form_data |-> FormPlain, creator_notes |-> "", receiver_notes |-> "",
       creator_initials |-> "", receiver_initials |-> "",
       replicated_from_id |-> Null, pdf_path |-> "", pdfData |-> FALSE],
      [status |-> COMPLETED, date |-> 1, time_start |-> "19:00", time_end |-> "21:00",
       location |-> "other", location_other |-> "lake", sound |-> "music",
       form_data |-> FormFelt, creator_notes |-> "note", receiver_notes |-> "",
       creator_initials |-> "CI", receiver_initials |-> "RI",
       replicated_from_id |-> Null, pdf_path |-> "", pdfData |-> TRUE],
      [status |-> DRAFT, pdfData |-> FALSE] }

\* bodies of PUT /api/tps-reports/:id: any partial report, nothing is validated
PutBodies ==
    { [status |-> PENDING_REVIEW],
      [status |-> PENDING_APPROVAL, receiver_initials |-> "RI"],
      [status |-> COMPLETED, creator_initials |-> "CI"],
      [status |-> COMPLETED],
      [status |-> ABORTED],
      [status |-> DRAFT],
      [receiver_id |-> 1],
      [status |-> "bogus"],
      [replicated_from_id |-> 1] }

\* req.query.status of GET /api/tps-reports: absent, or a status to filter by
StatusFilters == {Undefined, COMPLETED}

\* updateData.status
BodyStatus(data) == IF "status" \in DOMAIN data THEN data.status ELSE Undefined

(* ------------------------------- state --------------------------------- *)

VARIABLES
    reports,   \* tps_reports: row i has id i
    logs,      \* tps_logs in insertion order
    today,     \* the date new Date() shows
    req,       \* per handler slot: the request it serves and where it stands
    last,      \* the answer the latest step gave, NoAnswer when it gave none
    calendar,  \* calendar[i][u]: the events for report i on user u's calendar
    cache,     \* lib/pdf: currentPdfDocument, currentPdfBytes, currentPdfFields
    runs,      \* the load-and-render runs the form component has started
    surface,   \* the form component's canvas and the overlay container over it
    formValues \* the form component's formValues state

\* the browser's side of the state
client == <<cache, runs, surface, formValues>>

vars == <<reports, logs, today, req, last, calendar, cache, runs, surface, formValues>>

\* a slot that serves no request
Idle ==
    [kind |-> "none", pc |-> "idle", user |-> Null, id |-> Null,
     body |-> <<>>, seen |-> Undefined, isCreator |-> FALSE, isReceiver |-> FALSE,
     ret |-> Undefined, newReport |-> <<>>, raced |-> FALSE, rivalWon |-> FALSE]

\* the step answered no request
NoAnswer ==
    [kind |-> "none", code |-> 0, seen |-> Undefined, rivalWon |-> FALSE,
     mailTo |-> Null]

\* the calendars hold no event for a report
NoEvents == [u \in Users |-> 0]

Free(s) == req[s].pc = "idle"

\* a request goes to the first slot that serves none
FirstFree(s) == Free(s) /\ (s = "h1" \/ ~Free("h1"))

\* the other handler slot
Other(s) == CHOOSE t \in Slots : t # s

\* log rows the handlers in flight are still going to insert
LogsOwed(r) ==
    CASE r.pc = "create_log" -> 1
      [] r.pc \in {"put_update", "put_log"} -> 1
      [] r.pc \in {"rep_reread", "rep_insert", "rep_log_created"} -> 2
      [] r.pc = "rep_log_replicated" -> 1
      [] r.pc = "get_log" -> 1
      [] OTHER -> 0

\* report rows the handlers in flight are still going to insert
ReportsOwed(r) == IF r.pc \in {"rep_reread", "rep_insert"} THEN 1 ELSE 0

\* log rows owed by the handlers in the slots S
RECURSIVE LogsOwedBy(_)
LogsOwedBy(S) ==
    IF S = {} THEN 0
    ELSE LET s == CHOOSE x \in S : TRUE IN LogsOwed(req[s]) + LogsOwedBy(S \ {s})

\* report rows owed by the handlers in the slots S
RECURSIVE ReportsOwedBy(_)
ReportsOwedBy(S) ==
    IF S = {} THEN 0
    ELSE LET s == CHOOSE x \in S : TRUE IN ReportsOwed(req[s]) + ReportsOwedBy(S \ {s})

RoomForLogs(n) == Len(logs) + LogsOwedBy(Slots) + n <= MaxLogs
RoomForReports(n) == Len(reports) + ReportsOwedBy(Slots) + n <= MaxReports

(* ------------------------------ db.ts ---------------------------------- *)

Columns ==
    {"id", "creator_id", "receiver_id", "status", "date", "time_start", "time_end",
     "location", "location_other", "sound", "form_data", "creator_notes",
     "receiver_notes", "creator_initials", "receiver_initials",
     "replicated_from_id", "pdf_path"}

\* the columns insertTpsReportSchema requires: notNull without a default
Required ==
    {"creator_id", "receiver_id", "status", "date", "time_start", "time_end",
     "location", "sound", "form_data"}

\* insertTpsReportSchema.parse does not throw: status is any text
InsertTpsReportSchema(reportData) == Required \subseteq DOMAIN reportData

\* db.getTpsReport: the row, or undefined
Exists(id) == id \in DOMAIN reports

\* db.createTpsReport: insert ... returning; the serial id is the next one,
\* keys of reportData that are no columns are dropped
InsertedRow(reportData) ==
    [c \in Columns |-> IF c = "id" THEN Len(reports) + 1 ELSE reportData[c]]

\* db.updateTpsReport: update ... set data where id = id, returning
UpdatedRow(row, data) ==
    [c \in Columns |-> IF c \in DOMAIN data THEN data[c] ELSE row[c]]

\* db.createTpsLog
LogRow(tps_id, user_id, action, status, original_id) ==
    [tps_id |-> tps_id, user_id |-> user_id, action |-> action,
     details |-> [status |-> status, original_id |-> original_id]]


(* ------------------- POST /api/tps-reports (create) -------------------- *)

\* reportData: the body with creator_id and receiver_id set by the server
ReportData(body, userId) ==
    [c \in DOMAIN body \cup {"creator_id", "receiver_id"} |->
        IF c = "creator_id" THEN userId
        ELSE IF c = "receiver_id" THEN partner_id[userId]
        ELSE body[c]]

\* createTpsReport as it would be with the log row attributed to the partner
CreatedLog_ByPartner(id, creator_id) ==
    LogRow(id, partner_id[creator_id], "created", Undefined, Null)

\* the log row createTpsReport writes for a new report
CreatedLog(id, creator_id) == LogRow(id, creator_id, "created", Undefined, Null)

\* savePdfToDisk's path for a report
PdfPath(id) == "tps_report.pdf"

\* what is seen of a request when it is answered: the status code, the
\* status the handler had read, whether a rival had already succeeded, and
\* the user sendEmail was called for while the request was served
Response(r, code) ==
    [kind |-> r.kind, code |-> code, seen |-> r.seen, rivalWon |-> r.rivalWon,
     mailTo |-> Null]

\* the handler in slot s answers and the slot is free again
Respond(s, code) ==
    /\ last' = Response(req[s], code)
    /\ req' = [req EXCEPT ![s] = Idle]

\* a handler that returns an error status before its first write, as it
\* would be if it wrote a log row for the refused request
Rejected_Logged(r, code) ==
    /\ last' = Response(r, code)
    /\ logs' = Append(logs, LogRow(r.id, r.user, "rejected", Undefined, Null))
    /\ UNCHANGED <<reports, calendar, today, req, client>>

\* a handler returns an error status before its first write
Rejected(r, code) ==
    /\ last' = Response(r, code)
    /\ UNCHANGED <<reports, logs, calendar, today, req, client>>

\* the partner is notified of a report created in pending_review
CreateMail(userId, status) ==
    IF status = PENDING_REVIEW THEN partner_id[userId] ELSE Null

\* getUserWithPartner, the schema check and db.createTpsReport
CreateInsert(s, userId, body) ==
    /\ FirstFree(s)
    /\ IF ~HasPartner(userId)
       THEN Rejected([Idle EXCEPT !.kind = "create"], 404)
       ELSE IF ~InsertTpsReportSchema(ReportData(body, userId))
       THEN Rejected([Idle EXCEPT !.kind = "create"], 400)
       ELSE /\ RoomForReports(1)
            /\ RoomForLogs(1)
            /\ reports' = Append(reports, InsertedRow(ReportData(body, userId)))
            /\ calendar' = Append(calendar, NoEvents)
            /\ req' = [req EXCEPT ![s] =
                         [Idle EXCEPT !.kind = "create", !.pc = "create_log",
                                      !.user = userId, !.id = Len(reports) + 1,
                                      !.body = body, !.ret = body.status]]
            /\ last' = NoAnswer
            /\ UNCHANGED <<logs, today, client>>

\* the create handler answers 201 after the notification
CreateRespond(s) ==
    /\ last' = [Response(req[s], 201) EXCEPT
                  !.mailTo = CreateMail(req[s].user, req[s].ret)]
    /\ req' = [req EXCEPT ![s] = Idle]

\* createTpsLog 'created'; without pdfData the handler answers 201
CreateLog(s) ==
    /\ req[s].pc = "create_log"
    /\ logs' = Append(logs, CreatedLog(req[s].id, req[s].user))
    /\ IF req[s].body.pdfData
       THEN /\ req' = [req EXCEPT ![s].pc = "create_pdf"]
            /\ last' = NoAnswer
       ELSE CreateRespond(s)
    /\ UNCHANGED <<reports, calendar, today, client>>

\* savePdfToDisk, updateTpsReport(report.id, {pdf_path}) and the answer; when
\* Buffer.from or writeFile throws (written = FALSE) the catch answers 500
CreatePdf(s, written) ==
    /\ req[s].pc = "create_pdf"
    /\ IF written
       THEN /\ reports' = [reports EXCEPT ![req[s].id] =
                             UpdatedRow(@, [pdf_path |-> PdfPath(req[s].id)])]
            /\ CreateRespond(s)
       ELSE /\ Respond(s, 500)
            /\ UNCHANGED reports
    /\ UNCHANGED <<logs, calendar, today, client>>

(* ------------------- PUT /api/tps-reports/:id (update) ----------------- *)

\* the permission checks without the check for a finalized report
PutAllowed_NoFinalCheck(status, isCreator, isReceiver) ==
    IF ~isCreator /\ ~isReceiver THEN 403
    ELSE IF status = DRAFT /\ ~isCreator THEN 403
    ELSE IF status = PENDING_REVIEW /\ ~isReceiver THEN 403
    ELSE IF status = PENDING_APPROVAL /\ ~isCreator THEN 403
    ELSE 0

\* the permission checks without the check that only the receiver reviews
PutAllowed_NoReviewCheck(status, isCreator, isReceiver) ==
    IF ~isCreator /\ ~isReceiver THEN 403
    ELSE IF status = DRAFT /\ ~isCreator THEN 403
    ELSE IF status = PENDING_APPROVAL /\ ~isCreator THEN 403
    ELSE IF status = COMPLETED \/ status = ABORTED THEN 403
    ELSE 0

\* the permission checks on the report as read: 0 lets the request through
PutAllowed(status, isCreator, isReceiver) ==
    IF ~isCreator /\ ~isReceiver THEN 403
    ELSE IF status = DRAFT /\ ~isCreator THEN 403
    ELSE IF status = PENDING_REVIEW /\ ~isReceiver THEN 403
    ELSE IF status = PENDING_APPROVAL /\ ~isCreator THEN 403
    ELSE IF status = COMPLETED \/ status = ABORTED THEN 403
    ELSE 0

\* the other handler has read the same report and not yet written it
Racing(s, id) ==
    /\ req[Other(s)].kind = "put"
    /\ req[Other(s)].pc = "put_update"
    /\ req[Other(s)].id = id

\* parseInt, getTpsReport and the permission checks; req.body is first
\* used once they have passed
PutRead(s, userId, rawId) ==
    /\ FirstFree(s)
    /\ LET id == ParseInt(rawId)
           r0 == [Idle EXCEPT !.kind = "put"]
       IN IF id = NaN
          THEN Rejected(r0, 400)
          ELSE IF ~Exists(id)
          THEN Rejected(r0, 404)
          ELSE LET report == reports[id]
                   r == [r0 EXCEPT !.id = id, !.user = userId,
                                   !.seen = report.status,
                                   !.isCreator = (report.creator_id = userId),
                                   !.isReceiver = (report.receiver_id = userId)]
                   code == PutAllowed(report.status, r.isCreator, r.isReceiver)
               IN IF code # 0
                  THEN Rejected(r, code)
                  ELSE /\ RoomForLogs(1)
                       /\ \E body \in PutBodies :
                            req' = [t \in Slots |->
                                      IF t = s
                                      THEN [r EXCEPT !.pc = "put_update", !.body = body,
                                                     !.raced = Racing(s, id)]
                                      ELSE IF Racing(s, id)
                                      THEN [req[t] EXCEPT !.raced = TRUE]
                                      ELSE req[t]]
                       /\ last' = NoAnswer
                       /\ UNCHANGED <<reports, logs, calendar, today, client>>

\* storage.updateTpsReport(reportId, req.body)
PutUpdate(s) ==
    /\ req[s].pc = "put_update"
    /\ LET row == UpdatedRow(reports[req[s].id], req[s].body)
       IN /\ reports' = [reports EXCEPT ![req[s].id] = row]
          /\ req' = [req EXCEPT ![s].pc = "put_log", ![s].ret = row.status]
    /\ last' = NoAnswer
    /\ UNCHANGED <<logs, calendar, today, client>>

\* the two handlers read the same report before either wrote it
Rivals(s, t) ==
    /\ req[s].kind = "put" /\ req[t].kind = "put"
    /\ req[s].id = req[t].id
    /\ req[s].raced /\ req[t].raced

\* the log row of an update as it would be with the status the handler had
\* read before its update
UpdatedLog_StatusRead(r) == LogRow(r.id, r.user, "updated", r.seen, Null)

\* the log row of an update: details.status is updatedReport.status
UpdatedLog(r) == LogRow(r.id, r.user, "updated", r.ret, Null)

\* the user the notification of an update is sent to: none when the user has
\* no partner or no branch matches updateData.status
MailTo(r) ==
    LET status == BodyStatus(r.body)
    IN IF ~HasPartner(r.user) THEN Null
       ELSE IF status = PENDING_REVIEW /\ r.isCreator THEN partner_id[r.user]
       ELSE IF status = PENDING_APPROVAL /\ r.isReceiver THEN partner_id[r.user]
       ELSE IF status = COMPLETED /\ r.isCreator THEN partner_id[r.user]
       ELSE IF status = ABORTED
            THEN (IF r.isCreator THEN partner_id[r.user] ELSE r.user)
       ELSE Null

\* the users addToCalendar is called for
CalendarFor(r) ==
    IF HasPartner(r.user) /\ BodyStatus(r.body) = COMPLETED /\ r.isCreator
    THEN {r.user, partner_id[r.user]}
    ELSE {}

\* createTpsLog 'updated', the notifications and the answer
PutLog(s) ==
    /\ req[s].pc = "put_log"
    /\ logs' = Append(logs, UpdatedLog(req[s]))
    /\ last' = [Response(req[s], 200) EXCEPT !.mailTo = MailTo(req[s])]
    /\ calendar' = [calendar EXCEPT ![req[s].id] =
                      [u \in Users |-> IF u \in CalendarFor(req[s])
                                       THEN @[u] + 1 ELSE @[u]]]
    /\ req' = [t \in Slots |->
                 IF t = s THEN Idle
                 ELSE IF Rivals(s, t) THEN [req[t] EXCEPT !.rivalWon = TRUE]
                 ELSE req[t]]
    /\ UNCHANGED <<reports, today, client>>

(* --------------- POST /api/tps-reports/:id/replicate ------------------- *)

\* the route without its status check
Replicable_Any(status) == TRUE

\* only completed or aborted reports can be replicated
Replicable(status) == status = COMPLETED \/ status = ABORTED

\* the reset of emotional_state in the copy of form_data
ResetEmotionalState(formData) ==
    IF "emotional_state" \in DOMAIN formData
    THEN [formData EXCEPT !.emotional_state = [matt |-> "", mina |-> ""]]
    ELSE formData

\* the replica as it would be if it were handed to the other party
NewReport_Swapped(original, date) ==
    [creator_id |-> original.receiver_id,
     receiver_id |-> original.creator_id,
     status |-> DRAFT,
     date |-> date,
     time_start |-> original.time_start,
     time_end |-> original.time_end,
     location |-> original.location,
     location_other |-> original.location_other,
     sound |-> original.sound,
     form_data |-> ResetEmotionalState(original.form_data),
     creator_notes |-> "",
     receiver_notes |-> "",
     creator_initials |-> "",
     receiver_initials |-> "",
     replicated_from_id |-> original.id,
     pdf_path |-> ""]

\* newReport of replicateTpsReport
NewReport(original, date) ==
    [creator_id |-> original.creator_id,
     receiver_id |-> original.receiver_id,
     status |-> DRAFT,
     date |-> date,
     time_start |-> original.time_start,
     time_end |-> original.time_end,
     location |-> original.location,
     location_other |-> original.location_other,
     sound |-> original.sound,
     form_data |-> ResetEmotionalState(original.form_data),
     creator_notes |-> "",
     receiver_notes |-> "",
     creator_initials |-> "",
     receiver_initials |-> "",
     replicated_from_id |-> original.id,
     pdf_path |-> ""]

\* parseInt, getTpsReport and the status check of the route
RepRead(s, userId, rawId) ==
    /\ FirstFree(s)
    /\ LET id == ParseInt(rawId)
           r0 == [Idle EXCEPT !.kind = "replicate"]
       IN IF id = NaN
          THEN Rejected(r0, 400)
          ELSE IF ~Exists(id)
          THEN Rejected(r0, 404)
          ELSE LET report == reports[id]
                   r == [r0 EXCEPT !.id = id, !.user = userId,
                                   !.seen = report.status,
                                   !.isCreator = (report.creator_id = userId),
                                   !.isReceiver = (report.receiver_id = userId)]
               IN IF ~Replicable(report.status)
                  THEN Rejected(r, 400)
                  ELSE /\ RoomForLogs(2)
                       /\ RoomForReports(1)
                       /\ req' = [req EXCEPT ![s] = [r EXCEPT !.pc = "rep_reread"]]
                       /\ last' = NoAnswer
                       /\ UNCHANGED <<reports, logs, calendar, today, client>>

\* replicateTpsReport: getTpsReport again and newReport built from it
RepReread(s) ==
    /\ req[s].pc = "rep_reread"
    /\ req' = [req EXCEPT ![s].pc = "rep_insert",
                          ![s].newReport = NewReport(reports[req[s].id], today)]
    /\ last' = NoAnswer
    /\ UNCHANGED <<reports, logs, calendar, today, client>>

\* createTpsReport(newReport): the insert
RepInsert(s) ==
    /\ req[s].pc = "rep_insert"
    /\ reports' = Append(reports, InsertedRow(req[s].newReport))
    /\ req' = [req EXCEPT ![s].pc = "rep_log_created", ![s].ret = Len(reports) + 1]
    /\ calendar' = Append(calendar, NoEvents)
    /\ last' = NoAnswer
    /\ UNCHANGED <<logs, today, client>>

\* createTpsReport(newReport): the 'created' log
RepLogCreated(s) ==
    /\ req[s].pc = "rep_log_created"
    /\ logs' = Append(logs, CreatedLog(req[s].ret, req[s].newReport.creator_id))
    /\ req' = [req EXCEPT ![s].pc = "rep_log_replicated"]
    /\ last' = NoAnswer
    /\ UNCHANGED <<reports, calendar, today, client>>

\* the 'replicated' log and the answer with the new report
RepLogReplicated(s) ==
    /\ req[s].pc = "rep_log_replicated"
    /\ logs' = Append(logs, LogRow(req[s].ret, req[s].newReport.creator_id, "replicated",
                                   Undefined, req[s].newReport.replicated_from_id))
    /\ Respond(s, 201)
    /\ UNCHANGED <<reports, calendar, today, client>>

(* -------------------- GET /api/tps-reports/:id ------------------------- *)

\* parseInt, getTpsReport and the check that the user is a party
GetRead(s, userId, rawId) ==
    /\ FirstFree(s)
    /\ LET id == ParseInt(rawId)
           r0 == [Idle EXCEPT !.kind = "get"]
       IN IF id = NaN
          THEN Rejected(r0, 400)
          ELSE IF ~Exists(id)
          THEN Rejected(r0, 404)
          ELSE LET report == reports[id]
                   r == [r0 EXCEPT !.id = id, !.user = userId,
                                   !.seen = report.status,
                                   !.isCreator = (report.creator_id = userId),
                                   !.isReceiver = (report.receiver_id = userId)]
               IN IF ~r.isCreator /\ ~r.isReceiver
                  THEN Rejected(r, 403)
                  ELSE /\ RoomForLogs(1)
                       /\ req' = [req EXCEPT ![s] = [r EXCEPT !.pc = "get_log"]]
                       /\ last' = NoAnswer
                       /\ UNCHANGED <<reports, logs, calendar, today, client>>

\* createTpsLog 'viewed' and the answer with the report as read
GetLog(s) ==
    /\ req[s].pc = "get_log"
    /\ logs' = Append(logs, LogRow(req[s].id, req[s].user, "viewed", Undefined, Null))
    /\ Respond(s, 200)
    /\ UNCHANGED <<reports, calendar, today, client>>

(* ----------------------- GET /api/tps-reports -------------------------- *)

\* db.getTpsReportsByUser as it would be if it selected on creator_id only
GetTpsReportsByUser_CreatorOnly(userId) ==
    {i \in DOMAIN reports : reports[i].creator_id = userId}

\* db.getTpsReportsByUser: where creator_id = userId or receiver_id = userId
GetTpsReportsByUser(userId) ==
    {i \in DOMAIN reports :
        reports[i].creator_id = userId \/ reports[i].receiver_id = userId}

\* db.getTpsReportsByStatus
GetTpsReportsByStatus(status) ==
    {i \in DOMAIN reports : reports[i].status = status}

\* the ids of the reports the list handler answers with
ListedReports(userId, status) ==
    IF status # Undefined
    THEN {i \in GetTpsReportsByStatus(status) :
             reports[i].creator_id = userId \/ reports[i].receiver_id = userId}
    ELSE GetTpsReportsByUser(userId)

\* the list handler: one select and the answer
ListReports(s, userId, status) ==
    /\ FirstFree(s)
    /\ last' = [kind |-> "list", code |-> 200, seen |-> Undefined,
                rivalWon |-> FALSE, mailTo |-> Null,
                user |-> userId, filter |-> status,
                list |-> ListedReports(userId, status)]
    /\ UNCHANGED <<reports, logs, calendar, today, req, client>>

(* ------------------------ client: the PDF template --------------------- *)

\* JavaScript values of form fields: strings, and the two booleans
JsTrue == "<true>"

JsFalse == "<false>"

\* the values a || b skips
Falsy == {JsFalse, "", Undefined}

\* a || b
Or(a, b) == IF a \in Falsy THEN b ELSE a

\* the templates /api/templates/tps-vanilla can serve: an A4 form and a US
\* Letter form
Templates == {"a4", "letter"}

\* the width of page 1 at scale 1, in PDF units
PageWidth(pdf) == IF pdf = "a4" THEN 595 ELSE 612

\* the Widget annotations pdf.js reports, page by page; rect is <<left, right>>
\* (the vertical extent is left out), or <<>> when the annotation has none
Annotations(pdf) ==
    IF pdf = "a4"
    THEN << [fieldName |-> "name", fieldType |-> "text", fieldValue |-> "Bob",
             exportValue |-> Undefined, rect |-> <<0, 595>>, page |-> 1],
            [fieldName |-> "agree", fieldType |-> "checkbox", fieldValue |-> "Yes",
             exportValue |-> "Yes", rect |-> <<40, 60>>, page |-> 1],
            [fieldName |-> "sig", fieldType |-> "signature", fieldValue |-> "",
             exportValue |-> Undefined, rect |-> <<100, 300>>, page |-> 1] >>
    ELSE << [fieldName |-> "name", fieldType |-> "text", fieldValue |-> "",
             exportValue |-> Undefined, rect |-> <<0, 612>>, page |-> 1],
            [fieldName |-> "agree", fieldType |-> "checkbox", fieldValue |-> "Off",
             exportValue |-> "Yes", rect |-> <<40, 60>>, page |-> 1],
            [fieldName |-> "go", fieldType |-> "button", fieldValue |-> "",
             exportValue |-> Undefined, rect |-> <<70, 140>>, page |-> 1],
            [fieldName |-> "stamp", fieldType |-> "text", fieldValue |-> "x",
             exportValue |-> Undefined, rect |-> <<>>, page |-> 1],
            [fieldName |-> "more", fieldType |-> "text", fieldValue |-> "",
             exportValue |-> Undefined, rect |-> <<0, 300>>, page |-> 2] >>

\* initialData.form_data.fields: nothing saved, or the values of a saved report
SavedFields ==
    { <<>>,
      [agree |-> JsFalse, name |-> ""],
      [agree |-> "Yes", name |-> "Al"] }

\* the components that show the template
Components == {"PdfForm", "SimplePdfForm"}

(* ----------------------------- lib/pdf.ts ------------------------------ *)

\* the 595 the overlay renderers divide the canvas width by
Nominal == 595

\* the render scale 1.5, as a fraction
ScaleNum == 3

ScaleDen == 2

\* lengths in px are kept in thousandths
Milli == 1000

\* currentPdfDocument = null
NoDoc == <<>>

\* canvas.width after canvas.width = viewport.width: the attribute is an
\* integer, the fraction is cut
Raster(pdf) == (PageWidth(pdf) * ScaleNum) \div ScaleDen

\* one descriptor of extractFormFields
FormField(annotation) ==
    [name |-> Or(annotation.fieldName, "unnamed"),
     type |-> Or(annotation.fieldType, "unknown"),
     value |-> Or(annotation.fieldValue, ""),
     pageNumber |-> annotation.page,
     rect |-> annotation.rect,
     exportValue |-> IF annotation.exportValue \in Falsy THEN Undefined
                     ELSE annotation.exportValue]

\* extractFormFields
ExtractFormFields(pdf) ==
    [k \in DOMAIN Annotations(pdf) |-> FormField(Annotations(pdf)[k])]

\* initialFormValues: each field's value, then the saved values over them
InitialFormValues(fields, saved) ==
    [n \in {fields[k].name : k \in DOMAIN fields} \cup DOMAIN saved |->
        IF n \in DOMAIN saved THEN saved[n]
        ELSE LET k == CHOOSE j \in DOMAIN fields :
                         /\ fields[j].name = n
                         /\ \A i \in DOMAIN fields : fields[i].name = n => i <= j
             IN fields[k].value]

\* currentValue of the overlay renderers
CurrentValue(field, values) ==
    Or(IF field.name \in DOMAIN values THEN values[field.name] ELSE Undefined,
       Or(field.value, ""))

\* width of a field's container: (right - left) * (canvas.width / 595)
OverlayWidth(field, canvasW) ==
    ((field.rect[2] - field.rect[1]) * canvasW * Milli) \div Nominal

\* the element createInteractiveFormElements builds for a field, in edit mode:
\* shown is the text shown (for a checkbox: whether it is checked), emits the
\* value handed to onChange when the user checks or clicks it
Element(field, values, canvasW) ==
    LET currentValue == CurrentValue(field, values)
        box == [name |-> field.name, width |-> OverlayWidth(field, canvasW)]
    IN CASE field.type = "text" ->
              box @@ [tag |-> "text", shown |-> currentValue, emits |-> Undefined]
         [] field.type = "checkbox" ->
              box @@ [tag |-> "checkbox",
                      shown |-> IF currentValue = JsTrue \/ currentValue = field.exportValue
                                THEN JsTrue ELSE JsFalse,
                      emits |-> Or(field.exportValue, JsTrue)]
         [] field.type = "choice" ->
              box @@ [tag |-> "select", shown |-> currentValue, emits |-> Undefined]
         [] field.type = "button" ->
              box @@ [tag |-> "button", shown |-> Or(field.value, field.name),
                      emits |-> JsTrue]
         [] OTHER ->
              box @@ [tag |-> "div", shown |-> "", emits |-> Undefined]

\* the fields createInteractiveFormElements builds an element for
Rendered(formFields) ==
    SelectSeq(formFields, LAMBDA field : field.pageNumber = 1 /\ field.rect # <<>>)

\* the container as it would be if the renderer did not empty it first
Cleared_Kept(children) == children

\* while (containerElement.firstChild) removeChild
Cleared(children) == <<>>

\* createInteractiveFormElements: the container's children after the call
CreateInteractiveFormElements(children, formFields, values, canvasW, call) ==
    Cleared(children) \o
       [k \in DOMAIN Rendered(formFields) |->
           Element(Rendered(formFields)[k], values, canvasW) @@ [call |-> call]]

(* ------------------ components/simple-pdf-form.tsx --------------------- *)

\* one descriptor of loadAndRenderPdf: no export value is taken
SimpleField(annotation) ==
    [name |-> Or(annotation.fieldName, "unnamed"),
     type |-> Or(annotation.fieldType, "unknown"),
     value |-> Or(annotation.fieldValue, ""),
     rect |-> annotation.rect,
     exportValue |-> Undefined]

\* formFields of loadAndRenderPdf: the annotations of page 1
SimpleFields(pdf) ==
    LET first == SelectSeq(Annotations(pdf), LAMBDA annotation : annotation.page = 1)
    IN [k \in DOMAIN first |-> SimpleField(first[k])]

\* the element SimplePdfForm's createInteractiveFormElements builds
SimpleElement(field, values, canvasW) ==
    LET currentValue == CurrentValue(field, values)
        box == [name |-> field.name, width |-> OverlayWidth(field, canvasW)]
    IN CASE field.type = "text" ->
              box @@ [tag |-> "text", shown |-> currentValue, emits |-> Undefined]
         [] field.type = "checkbox" ->
              box @@ [tag |-> "checkbox",
                      shown |-> IF currentValue = JsTrue \/ currentValue = field.exportValue
                                THEN JsTrue ELSE JsFalse,
                      emits |-> JsTrue]
         [] field.type = "choice" ->
              box @@ [tag |-> "select", shown |-> currentValue, emits |-> Undefined]
         [] OTHER ->
              box @@ [tag |-> "div", shown |-> "", emits |-> Undefined]

\* the fields SimplePdfForm builds an element for
SimpleRendered(fields) == SelectSeq(fields, LAMBDA field : field.rect # <<>>)

\* SimplePdfForm's createInteractiveFormElements
SimpleCreateInteractiveFormElements(children, fields, values, canvasW, call) ==
    Cleared(children) \o
       [k \in DOMAIN SimpleRendered(fields) |->
           SimpleElement(SimpleRendered(fields)[k], values, canvasW) @@ [call |-> call]]

(* ------------------------- the runs of the effect ---------------------- *)

\* the positions at which a run waits for pdf.js on the document it uses
Awaiting == {"load_fields", "render_fields", "render_page", "render_paint"}

\* the positions inside a call of loadPdfForm or renderPdfToCanvas
InCall == {"fetch", "load_doc", "render_doc"} \cup Awaiting

\* document.destroy(): the runs waiting on that document may fail
Destroy(rs, doc) ==
    [m \in DOMAIN rs |->
        IF rs[m].using = doc /\ rs[m].pc \in Awaiting
        THEN [rs[m] EXCEPT !.lost = TRUE] ELSE rs[m]]

\* a pdf.js promise of run n settles: it can reject only when the document
\* was destroyed
Settles(n, ok) == ok \/ runs[n].lost

\* a run at its end: its locals are gone
Ended(run, pc) ==
    [run EXCEPT !.pc = pc, !.saved = <<>>, !.using = NoDoc, !.lost = FALSE]

\* the catch block of the effect: a toast, nothing else
Failed(n) == runs' = [runs EXCEPT ![n] = Ended(runs[n], "failed")]

\* run n has neither built its overlay nor failed
Unfinished(n) == runs[n].pc \notin {"done", "failed"}

\* useEffect(..., [initialData]): the component starts a run; the fetch of
\* the template is on its way. The model lets two runs overlap, not more
UseEffect(comp, pdf, saved) ==
    /\ Len(runs) < MaxRuns
    /\ \A m, n \in DOMAIN runs : Unfinished(m) /\ Unfinished(n) => m = n
    /\ surface.comp \in {"none", comp}
    /\ runs' = Append(runs, [comp |-> comp, pc |-> "fetch", pdf |-> pdf,
                             saved |-> saved, using |-> NoDoc, lost |-> FALSE])
    /\ surface' = [surface EXCEPT !.comp = comp]
    /\ UNCHANGED <<cache, formValues, reports, logs, today, req, last, calendar>>

\* loadPdfForm after the fetch: currentPdfBytes is set, the old document is
\* destroyed and dropped, getDocument starts
LoadBytes(n) ==
    /\ n \in DOMAIN runs
    /\ runs[n].comp = "PdfForm" /\ runs[n].pc = "fetch"
    /\ cache' = [cache EXCEPT !.bytes = n, !.doc = NoDoc, !.dead = FALSE]
    /\ runs' = [IF cache.doc # NoDoc THEN Destroy(runs, cache.doc) ELSE runs
                  EXCEPT ![n].pc = "load_doc"]
    /\ UNCHANGED <<surface, formValues, reports, logs, today, req, last, calendar>>

\* loadPdfForm: getDocument resolved; extractFormFields starts on it
LoadDoc(n) ==
    /\ n \in DOMAIN runs
    /\ runs[n].pc = "load_doc"
    /\ cache' = [cache EXCEPT !.doc = <<n, 1>>, !.dead = FALSE]
    /\ runs' = [runs EXCEPT ![n].pc = "load_fields", ![n].using = <<n, 1>>,
                            ![n].lost = FALSE]
    /\ UNCHANGED <<surface, formValues, reports, logs, today, req, last, calendar>>

\* loadPdfForm: extractFormFields settled; the call returns the bytes
LoadFields(n, ok) ==
    /\ n \in DOMAIN runs
    /\ runs[n].pc = "load_fields"
    /\ Settles(n, ok)
    /\ IF ok
       THEN /\ cache' = [cache EXCEPT !.fields = n, !.recent = n]
            /\ runs' = [runs EXCEPT ![n].pc = "loaded"]
       ELSE /\ Failed(n)
            /\ UNCHANGED cache
    /\ UNCHANGED <<surface, formValues, reports, logs, today, req, last, calendar>>

\* renderPdfToCanvas is called with the run's bytes: a reload when the module
\* holds no document or other bytes, else getPage on the document it holds
RenderCall(n) ==
    /\ n \in DOMAIN runs
    /\ runs[n].pc = "loaded"
    /\ IF cache.doc = NoDoc \/ cache.bytes # n
       THEN /\ cache' = [cache EXCEPT !.dead = (cache.doc # NoDoc)]
            /\ runs' = [IF cache.doc # NoDoc THEN Destroy(runs, cache.doc) ELSE runs
                          EXCEPT ![n].pc = "render_doc"]
       ELSE /\ runs' = [runs EXCEPT ![n].pc = "render_page", ![n].using = cache.doc,
                                    ![n].lost = cache.dead]
            /\ UNCHANGED cache
    /\ UNCHANGED <<surface, formValues, reports, logs, today, req, last, calendar>>

\* renderPdfToCanvas: getDocument resolved; extractFormFields starts on it
RenderDoc(n) ==
    /\ n \in DOMAIN runs
    /\ runs[n].pc = "render_doc"
    /\ cache' = [cache EXCEPT !.doc = <<n, 2>>, !.dead = FALSE, !.bytes = n]
    /\ runs' = [runs EXCEPT ![n].pc = "render_fields", ![n].using = <<n, 2>>,
                            ![n].lost = FALSE]
    /\ UNCHANGED <<surface, formValues, reports, logs, today, req, last, calendar>>

\* renderPdfToCanvas: extractFormFields settled; getPage is called on
\* currentPdfDocument as it is now
RenderFields(n, ok) ==
    /\ n \in DOMAIN runs
    /\ runs[n].pc = "render_fields"
    /\ Settles(n, ok)
    /\ IF ok
       THEN /\ cache' = [cache EXCEPT !.fields = n]
            /\ IF cache.doc = NoDoc
               THEN Failed(n)
               ELSE runs' = [runs EXCEPT ![n].pc = "render_page",
                                         ![n].using = cache.doc,
                                         ![n].lost = cache.dead]
       ELSE /\ Failed(n)
            /\ UNCHANGED cache
    /\ UNCHANGED <<surface, formValues, reports, logs, today, req, last, calendar>>

\* renderPdfToCanvas: getPage settled; the canvas takes the viewport's size
\* and the page starts to render
RenderPage(n, ok) ==
    /\ n \in DOMAIN runs
    /\ runs[n].comp = "PdfForm" /\ runs[n].pc = "render_page"
    /\ Settles(n, ok)
    /\ IF ok
       THEN /\ surface' = [surface EXCEPT !.canvasW = Raster(runs[runs[n].using[1]].pdf)]
            /\ runs' = [runs EXCEPT ![n].pc = "render_paint"]
       ELSE /\ Failed(n)
            /\ UNCHANGED surface
    /\ UNCHANGED <<cache, formValues, reports, logs, today, req, last, calendar>>

\* renderPdfToCanvas: page.render settled; the call returns
RenderPaint(n, ok) ==
    /\ n \in DOMAIN runs
    /\ runs[n].pc = "render_paint"
    /\ Settles(n, ok)
    /\ IF ok
       THEN /\ runs' = [runs EXCEPT ![n].pc = "rendered"]
            /\ cache' = [cache EXCEPT !.recent = n]
       ELSE /\ Failed(n)
            /\ UNCHANGED cache
    /\ UNCHANGED <<surface, formValues, reports, logs, today, req, last, calendar>>

\* the fields getFormFields returns
GetFormFields == ExtractFormFields(runs[cache.fields].pdf)

\* PdfForm: getFormFields, the initial values and the overlay
Overlay(n) ==
    /\ n \in DOMAIN runs
    /\ runs[n].pc = "rendered"
    /\ IF cache.fields = 0
       THEN /\ Failed(n)
            /\ UNCHANGED <<surface, formValues>>
       ELSE LET values == InitialFormValues(GetFormFields, runs[n].saved)
            IN /\ formValues' = values
               /\ surface' = [surface EXCEPT !.children =
                      CreateInteractiveFormElements(@, GetFormFields, values,
                                                    surface.canvasW, n)]
               /\ runs' = [runs EXCEPT ![n] = Ended(runs[n], "done")]
    /\ UNCHANGED <<cache, reports, logs, today, req, last, calendar>>

\* SimplePdfForm: fetch, getDocument and getPage resolved; the canvas takes
\* the viewport's size and the page starts to render
SimpleCanvas(n) ==
    /\ n \in DOMAIN runs
    /\ runs[n].comp = "SimplePdfForm" /\ runs[n].pc = "fetch"
    /\ surface' = [surface EXCEPT !.canvasW = Raster(runs[n].pdf)]
    /\ runs' = [runs EXCEPT ![n].pc = "simple_paint"]
    /\ UNCHANGED <<cache, formValues, reports, logs, today, req, last, calendar>>

\* SimplePdfForm: page.render and getAnnotations resolved; the fields, the
\* initial values and the overlay
SimpleOverlay(n) ==
    /\ n \in DOMAIN runs
    /\ runs[n].pc = "simple_paint"
    /\ LET values == InitialFormValues(SimpleFields(runs[n].pdf), runs[n].saved)
       IN /\ formValues' = values
          /\ surface' = [surface EXCEPT !.children =
                 SimpleCreateInteractiveFormElements(@, SimpleFields(runs[n].pdf),
                                                     values, surface.canvasW, n)]
    /\ runs' = [runs EXCEPT ![n] = Ended(runs[n], "done")]
    /\ UNCHANGED <<cache, reports, logs, today, req, last, calendar>>

\* the user checks or unchecks the checkbox of a field in the overlay: its
\* change listener hands the value to onChange, which stores it
Change(name) ==
    /\ \E k \in DOMAIN surface.children :
          /\ surface.children[k].name = name
          /\ surface.children[k].tag = "checkbox"
          /\ LET child == surface.children[k]
                 checked == child.shown = JsFalse
             IN /\ surface' = [surface EXCEPT !.children[k].shown =
                                           IF checked THEN JsTrue ELSE JsFalse]
                /\ formValues' = (name :> (IF checked THEN child.emits ELSE JsFalse))
                                     @@ formValues
    /\ UNCHANGED <<cache, runs, reports, logs, today, req, last, calendar>>

(* ------------------------- the state machine -------------------------- *)

Init ==
    /\ reports = <<>>
    /\ logs = <<>>
    /\ today = Today
    /\ req = [s \in Slots |-> Idle]
    /\ last = NoAnswer
    /\ calendar = <<>>
    /\ cache = [doc |-> NoDoc, dead |-> FALSE, bytes |-> 0, fields |-> 0, recent |-> 0]
    /\ runs = <<>>
    /\ surface = [comp |-> "none", canvasW |-> 300, children |-> <<>>]
    /\ formValues = <<>>

Next ==
    \/ \E s \in Slots :
        \/ \E u \in Users, b \in CreateBodies : CreateInsert(s, u, b)
        \/ CreateLog(s)
        \/ \E written \in BOOLEAN : CreatePdf(s, written)
        \/ \E u \in Users, p \in RawIds : PutRead(s, u, p)
        \/ PutUpdate(s)
        \/ PutLog(s)
        \/ \E u \in Users, p \in RawIds : RepRead(s, u, p)
        \/ RepReread(s)
        \/ RepInsert(s)
        \/ RepLogCreated(s)
        \/ RepLogReplicated(s)
        \/ \E u \in Users, p \in RawIds : GetRead(s, u, p)
        \/ GetLog(s)
        \/ \E u \in Users, f \in StatusFilters : ListReports(s, u, f)

Spec == Init /\ [][Next]_vars

\* the browser alone: the form component's runs and the user's changes
NextPdf ==
    \/ \E comp \in Components, pdf \in Templates, saved \in SavedFields :
          UseEffect(comp, pdf, saved)
    \/ \E n \in 1..MaxRuns :
        \/ LoadBytes(n)
        \/ LoadDoc(n)
        \/ \E ok \in BOOLEAN : LoadFields(n, ok)
        \/ RenderCall(n)
        \/ RenderDoc(n)
        \/ \E ok \in BOOLEAN : RenderFields(n, ok)
        \/ \E ok \in BOOLEAN : RenderPage(n, ok)
        \/ \E ok \in BOOLEAN : RenderPaint(n, ok)
        \/ Overlay(n)
        \/ SimpleCanvas(n)
        \/ SimpleOverlay(n)
    \/ \E name \in {"agree"} : Change(name)

SpecPdf == Init /\ [][NextPdf]_vars


(* ------------------------------ properties ----------------------------- *)

\* slot s takes the step that leaves program point pc
Leaves(s, pc) == req[s].pc = pc /\ req'[s].pc # pc

\* the transitions of the status table, with the role that may take them
TableTransition(from, to, isCreator, isReceiver) ==
    \/ from = DRAFT /\ to = PENDING_REVIEW /\ isCreator
    \/ from = PENDING_REVIEW /\ to = PENDING_APPROVAL /\ isReceiver
    \/ from = PENDING_REVIEW /\ to = ABORTED /\ isReceiver
    \/ from = PENDING_APPROVAL /\ to = COMPLETED /\ isCreator
    \/ from = PENDING_APPROVAL /\ to = ABORTED /\ isCreator

\* C1: every report's status is one of the enumerated values, and every change
\* of the status of an existing report is a transition of the table taken by
\* the role the table names.
C1_TransitionClosure ==
    [][ /\ \A i \in DOMAIN reports' : reports'[i].status \in TpsStatus
        /\ \A i \in DOMAIN reports :
             reports'[i].status # reports[i].status =>
               \E s \in Slots :
                  /\ Leaves(s, "put_update")
                  /\ req[s].id = i
                  /\ TableTransition(reports[i].status, reports'[i].status,
                                     req[s].isCreator, req[s].isReceiver) ]_vars

\* C2: of two update requests that both read the report before either wrote
\* it, at most one succeeds: the one answered after its rival succeeded gets
\* a Conflict (409).
C2_OneWinner ==
    (last.kind = "put" /\ last.rivalWon) => last.code = 409

\* C3: an update request that finds the report completed or aborted is
\* answered 403 whoever sends it, never gets to write, and its answer leaves
\* reports and logs as they were.
C3_TerminalForbidden ==
    /\ [](\A s \in Slots : req[s].kind = "put" => req[s].seen \notin Terminal)
    /\ []((last.kind = "put" /\ last.seen \in Terminal) => last.code = 403)
    /\ [][ (last'.kind = "put" /\ last'.seen \in Terminal)
             => UNCHANGED <<reports, logs>> ]_vars

\* a PUT on a completed report has been answered 403
C3_Witness ==
    /\ last.kind = "put" /\ last.seen = COMPLETED /\ last.code = 403
    /\ \E i \in DOMAIN reports : reports[i].status = COMPLETED

\* the role that owns a non-terminal status
Owns(status, isCreator, isReceiver) ==
    CASE status = DRAFT -> isCreator
      [] status = PENDING_REVIEW -> isReceiver
      [] status = PENDING_APPROVAL -> isCreator
      [] OTHER -> FALSE

\* C4: an update request on a report it finds in a non-terminal status gets
\* past the checks only when its sender owns that status, and when it does
\* not get past them it is answered 403.
C4_OwnerOnly ==
    /\ \A s \in Slots :
         (req[s].kind = "put" /\ req[s].seen \in TpsStatus \ Terminal) =>
            Owns(req[s].seen, req[s].isCreator, req[s].isReceiver)
    /\ (last.kind = "put" /\ last.seen \in TpsStatus \ Terminal /\ last.code # 200)
          => last.code = 403

\* the receiver is writing a report in review after a PUT on a report in
\* review was answered 403
C4_Witness ==
    /\ last.kind = "put" /\ last.seen = PENDING_REVIEW /\ last.code = 403
    /\ \E s \in Slots :
         /\ req[s].kind = "put" /\ req[s].seen = PENDING_REVIEW
         /\ req[s].isReceiver /\ req[s].pc = "put_log"

\* C5: updateTpsReport called on a report whose stored status is completed or
\* aborted leaves the stored reports as they are.
C5_StoreRefusesTerminal ==
    [][ \A s \in Slots :
          ( /\ Leaves(s, "put_update") \/ Leaves(s, "create_pdf")
            /\ reports[req[s].id].status \in Terminal )
          => reports' = reports ]_vars

\* C6: a completed report carries the creator's initials.
C6_CompletedHasInitials ==
    \A i \in DOMAIN reports :
       reports[i].status = COMPLETED => reports[i].creator_initials # ""

\* C7 as stated: no report comes into existence in a status other than draft.
C7_BornDraft ==
    [][ \A i \in DOMAIN reports' \ DOMAIN reports : reports'[i].status = DRAFT ]_vars

\* the 'created' log rows of report i
CreatedLogs(i) ==
    {k \in DOMAIN logs : logs[k].tps_id = i /\ logs[k].action = "created"}

\* the handler that inserted report i has not yet written its 'created' log
CreatedLogPending(i) ==
    \E s \in Slots :
       \/ req[s].pc = "create_log" /\ req[s].id = i
       \/ req[s].pc = "rep_log_created" /\ req[s].ret = i

\* C7, amended: a create request yields a new report with the status its body
\* carries, the session user as creator and the partner as receiver, and
\* exactly one 'created' log row, attributed to the session user; a report
\* that a replication brings into existence is a draft.
C7_CreateYields ==
    /\ [](\A i \in DOMAIN reports :
            Cardinality(CreatedLogs(i)) = IF CreatedLogPending(i) THEN 0 ELSE 1)
    /\ [][ \A i \in DOMAIN reports' \ DOMAIN reports :
             \E s \in Slots :
                \/ /\ req[s].pc = "idle" /\ req'[s].pc = "create_log"
                   /\ req'[s].id = i
                   /\ reports'[i].status = req'[s].body.status
                   /\ reports'[i].creator_id = req'[s].user
                   /\ reports'[i].receiver_id = partner_id[req'[s].user]
                \/ /\ Leaves(s, "rep_insert")
                   /\ reports'[i].status = DRAFT ]_vars
    /\ [][ \A s \in Slots :
             Leaves(s, "create_log") =>
                /\ Len(logs') = Len(logs) + 1
                /\ logs'[Len(logs')].tps_id = req[s].id
                /\ logs'[Len(logs')].action = "created"
                /\ logs'[Len(logs')].user_id = req[s].user ]_vars

\* a create request sent with status completed has been answered 201 and its
\* report has its one 'created' log row
C7_Witness ==
    /\ last.kind = "create" /\ last.code = 201
    /\ \E i \in DOMAIN reports :
         /\ reports[i].replicated_from_id = Null
         /\ Cardinality(CreatedLogs(i)) = 1
         /\ \A s \in Slots : req[s].pc = "idle"
         /\ Len(reports) = 1
         /\ reports[i].status = COMPLETED

\* the keys of form_data other than emotional_state
OtherFormData(formData) ==
    [k \in DOMAIN formData \ {"emotional_state"} |-> formData[k]]

\* the emotional state of a form is unset or blank
EmotionalStateCleared(formData) ==
    "emotional_state" \in DOMAIN formData =>
       formData.emotional_state = [matt |-> "", mina |-> ""]

\* C8: the report R' a replication of R inserts has a fresh id, status draft,
\* replicated_from_id = R.id, cleared emotional state and initials, today's
\* date, and R's time_start, time_end, location, location_other, sound, notes
\* and remaining form_data; R is unchanged.
C8_ReplicaOfR ==
    [][ \A s \in Slots :
          Leaves(s, "rep_insert") =>
             LET R == reports[req[s].id]
                 N == reports'[Len(reports')]
             IN /\ Len(reports') = Len(reports) + 1
                /\ N.id \notin DOMAIN reports
                /\ N.status = DRAFT
                /\ N.replicated_from_id = R.id
                /\ EmotionalStateCleared(N.form_data)
                /\ N.creator_initials = "" /\ N.receiver_initials = ""
                /\ N.date = today
                /\ N.time_start = R.time_start /\ N.time_end = R.time_end
                /\ N.location = R.location /\ N.location_other = R.location_other
                /\ N.sound = R.sound
                /\ N.creator_notes = R.creator_notes
                /\ N.receiver_notes = R.receiver_notes
                /\ OtherFormData(N.form_data) = OtherFormData(R.form_data)
                /\ reports'[R.id] = R ]_vars

\* C9: a replicate request gets past the checks only when it finds the report
\* completed or aborted; on a report it finds in another status it is
\* answered 400 and inserts no report and no log row.
C9_ReplicateTerminalOnly ==
    /\ [](\A s \in Slots : req[s].kind = "replicate" => req[s].seen \in Terminal)
    /\ []((last.kind = "replicate" /\ last.seen \in TpsStatus \ Terminal)
             => last.code = 400)
    /\ [][ (last'.kind = "replicate" /\ last'.code = 400)
             => UNCHANGED <<reports, logs>> ]_vars

\* a replicate request on a draft has been answered 400
C9_Witness ==
    /\ last.kind = "replicate" /\ last.seen = DRAFT /\ last.code = 400
    /\ \E i \in DOMAIN reports : reports[i].status = DRAFT

\* C10: a replicate request gets past the checks only when its sender is the
\* creator or the receiver of the report.
C10_ReplicatePartyOnly ==
    \A s \in Slots :
       req[s].kind = "replicate" => (req[s].isCreator \/ req[s].isReceiver)

\* C11: no step changes the creator_id or the receiver_id of a report that
\* exists, whatever the body of the update request carries.
C11_PartiesImmutable ==
    [][ \A i \in DOMAIN reports :
          /\ reports'[i].creator_id = reports[i].creator_id
          /\ reports'[i].receiver_id = reports[i].receiver_id ]_vars

\* C12: every report's receiver is another user than its creator and is the
\* creator's partner; the row a create request inserts has the session user
\* as creator and that user's partner as receiver.
C12_ConfiguredPair ==
    /\ [](\A i \in DOMAIN reports :
            /\ reports[i].creator_id # reports[i].receiver_id
            /\ reports[i].receiver_id = partner_id[reports[i].creator_id])
    /\ [][ \A s \in Slots :
             (req[s].pc = "idle" /\ req'[s].pc = "create_log") =>
                /\ reports'[req'[s].id].creator_id = req'[s].user
                /\ reports'[req'[s].id].receiver_id = partner_id[req'[s].user] ]_vars

\* a PUT on report i has written the row and not yet logged and notified
UpdateInFlight(i) ==
    \E s \in Slots : req[s].kind = "put" /\ req[s].pc = "put_log" /\ req[s].id = i

\* C13: for every completed report that no update request is still working
\* on, addToCalendar has been called exactly once for its creator and exactly
\* once for its receiver.
C13_CalendarOnce ==
    \A i \in DOMAIN reports :
       (reports[i].status = COMPLETED /\ ~UpdateInFlight(i)) =>
          /\ calendar[i][reports[i].creator_id] = 1
          /\ calendar[i][reports[i].receiver_id] = 1

\* C14: the email of a successful table transition goes to the party that did
\* not act: to the receiver when the creator submits or aborts, to the
\* creator when the receiver approves or denies.
C14_MailToOtherParty ==
    [][ \A s \in Slots :
          (Leaves(s, "put_log") /\ last'.code = 200) =>
             LET r == req[s]
                 R == reports[r.id]
                 byCreator == r.isCreator /\ ~r.isReceiver
                 byReceiver == r.isReceiver /\ ~r.isCreator
             IN /\ (byCreator /\ r.seen = DRAFT /\ r.ret = PENDING_REVIEW)
                      => last'.mailTo = R.receiver_id
                /\ (byCreator /\ r.seen = PENDING_APPROVAL /\ r.ret = ABORTED)
                      => last'.mailTo = R.receiver_id
                /\ (byReceiver /\ r.seen = PENDING_REVIEW /\ r.ret = PENDING_APPROVAL)
                      => last'.mailTo = R.creator_id
                /\ (byReceiver /\ r.seen = PENDING_REVIEW /\ r.ret = ABORTED)
                      => last'.mailTo = R.creator_id ]_vars

\* C15: a create or update request whose side effect fails keeps its report
\* row and its log row and is still answered as a success.
C15_SideEffectNotFatal ==
    /\ [](last.kind \in {"create", "put"} => last.code # 500)
    /\ [][ \A s \in Slots :
             Leaves(s, "create_pdf") =>
                /\ req[s].id \in DOMAIN reports'
                /\ logs' = logs ]_vars

\* the step appends a log row with this action for report i
Appends(action, i) ==
    /\ Len(logs') = Len(logs) + 1
    /\ logs'[Len(logs')].action = action
    /\ logs'[Len(logs')].tps_id = i

\* C16: the step in which an update request writes the report row is the step
\* that appends its 'updated' log row: neither happens without the other.
C16_RowAndLogTogether ==
    [][ /\ \A s \in Slots :
             Leaves(s, "put_update") => Appends("updated", req[s].id)
        /\ \A i \in DOMAIN reports :
             Appends("updated", i) =>
                \E s \in Slots : Leaves(s, "put_update") /\ req[s].id = i ]_vars

C18_LogPerOperation ==
    [][ /\ \A s \in Slots :
             /\ Leaves(s, "create_log") =>
                   Appends("created", req[s].id)
                   /\ logs'[Len(logs')].user_id = req[s].user
             /\ Leaves(s, "get_log") =>
                   Appends("viewed", req[s].id)
                   /\ logs'[Len(logs')].user_id = req[s].user
                   /\ (req[s].isCreator \/ req[s].isReceiver)
             /\ Leaves(s, "put_log") =>
                   Appends("updated", req[s].id)
                   /\ logs'[Len(logs')].user_id = req[s].user
             /\ Leaves(s, "rep_log_replicated") =>
                   Appends("replicated", req[s].ret)
                   /\ logs'[Len(logs')].user_id = req[s].user
        /\ (last'.kind = "get" /\ last'.code \in {403, 404}) => logs' = logs ]_vars

\* a payload the report schema admits: a status, when carried, is one of the
\* enumerated values
WellFormed(body) == "status" \in DOMAIN body => body.status \in TpsStatus

\* C19: a create or update request gets to its write only with a payload the
\* report schema admits, and a create request answered 400 changes neither
\* reports nor logs.
C19_ValidatedBeforePersisted ==
    [][ /\ \A s \in Slots :
             (req[s].pc = "idle" /\ req'[s].pc \in {"create_log", "put_update"}) =>
                WellFormed(req'[s].body)
        /\ (last'.kind = "create" /\ last'.code = 400) =>
              UNCHANGED <<reports, logs>> ]_vars

\* C20: the step that answers an update or a replicate request with 400, 403
\* or 404 leaves reports, logs and calendars as they were and sends no email.
C20_RejectedChangesNothing ==
    [][ (last'.kind \in {"put", "replicate"} /\ last'.code \in {400, 403, 404}) =>
          /\ UNCHANGED <<reports, logs, calendar>>
          /\ last'.mailTo = Null ]_vars

\* an update of a draft by a user who is not its creator has been answered
\* 403 while a report and a log row exist
C20_Witness ==
    /\ last.kind = "put" /\ last.code = 403 /\ last.seen = DRAFT
    /\ Len(reports) >= 1 /\ Len(logs) >= 1

\* following replicated_from_id from report i for n hops ends at a report
\* that replicates none
RECURSIVE ChainEnds(_, _)
ChainEnds(i, n) ==
    IF reports[i].replicated_from_id = Null THEN TRUE
    ELSE IF n = 0 \/ reports[i].replicated_from_id \notin DOMAIN reports THEN FALSE
    ELSE ChainEnds(reports[i].replicated_from_id, n - 1)

\* C21: every report's replicated_from_id is unset or the id of another report
\* that was inserted earlier, so that every chain of links ends; and the
\* report a replication copies is completed or aborted when the copy is
\* inserted.
C21_ReplicationAcyclic ==
    /\ [](\A i \in DOMAIN reports :
            /\ reports[i].replicated_from_id # Null =>
                  /\ reports[i].replicated_from_id \in DOMAIN reports
                  /\ reports[i].replicated_from_id < i
            /\ ChainEnds(i, Len(reports)))
    /\ [][ \A s \in Slots :
             Leaves(s, "rep_insert") =>
                reports[req[s].id].status \in Terminal ]_vars

\* the reports a user is a party of, with the status asked for when one is
PartyOf(userId, status) ==
    {i \in DOMAIN reports :
        /\ reports[i].creator_id = userId \/ reports[i].receiver_id = userId
        /\ status # Undefined => reports[i].status = status}

\* C22: the list a user is answered with, filtered by status or not, is
\* exactly the set of reports the user is creator or receiver of (with that
\* status).
C22_ListIsPartyOf ==
    last.kind = "list" => last.list = PartyOf(last.user, last.filter)

\* a user has asked for the completed reports and been answered a list that
\* holds a report it is the receiver of, while another report is not listed
C22_Witness ==
    /\ last.kind = "list" /\ last.filter = COMPLETED
    /\ \E i \in last.list :
         reports[i].receiver_id = last.user /\ reports[i].creator_id # last.user
    /\ \E i \in DOMAIN reports : i \notin last.list

\* the form mode ViewTps chooses for a user on a report it was served
FormMode(report, userId) ==
    LET isCreator == report.creator_id = userId
    IN IF report.status = DRAFT /\ isCreator THEN "edit"
       ELSE IF report.status = PENDING_REVIEW /\ ~isCreator THEN "review"
       ELSE IF report.status = PENDING_APPROVAL /\ isCreator THEN "approve"
       ELSE "view"

\* what ViewTps shows user u of report i: the page without a form when the
\* fetch by id is refused, else the form in the mode chosen
ViewTps(i, userId) ==
    IF reports[i].creator_id # userId /\ reports[i].receiver_id # userId
    THEN "not found"
    ELSE FormMode(reports[i], userId)

\* C29: for every user and report, ViewTps chooses edit, review or approve
\* exactly when the PUT handler lets a write of that user on the report's
\* status through.
C29_ModeMatchesServer ==
    \A i \in DOMAIN reports, u \in Users :
       (ViewTps(i, u) \in {"edit", "review", "approve"})
          <=> (PutAllowed(reports[i].status, reports[i].creator_id = u,
                          reports[i].receiver_id = u) = 0)

\* C30: the report a replication inserts has the creator_id and receiver_id
\* of the original as replicateTpsReport read it, whoever sent the request;
\* an update request on a replica it finds in draft gets past the checks only
\* for the creator of the replica, and is answered 403 for anyone else.
C30_ReplicaKeepsParties ==
    /\ [][ \A s \in Slots :
             /\ Leaves(s, "rep_reread") =>
                   /\ req'[s].newReport.creator_id = reports[req[s].id].creator_id
                   /\ req'[s].newReport.receiver_id = reports[req[s].id].receiver_id
             /\ Leaves(s, "rep_insert") =>
                   /\ reports'[Len(reports')].creator_id = req[s].newReport.creator_id
                   /\ reports'[Len(reports')].receiver_id = req[s].newReport.receiver_id ]_vars
    /\ [](\A s \in Slots :
            ( /\ req[s].kind = "put" /\ req[s].seen = DRAFT
              /\ reports[req[s].id].replicated_from_id # Null )
            => req[s].user = reports[req[s].id].creator_id)
    /\ []((last.kind = "put" /\ last.seen = DRAFT /\ last.code # 200)
             => last.code = 403)

\* the receiver's update of the draft replica of a completed report has been
\* answered 403: the replica is the only draft
C30_Witness ==
    /\ last.kind = "put" /\ last.code = 403 /\ last.seen = DRAFT
    /\ Len(reports) = 2
    /\ reports[1].status = COMPLETED
    /\ reports[2].status = DRAFT /\ reports[2].replicated_from_id = 1
    /\ reports[2].creator_id = reports[1].creator_id
    /\ reports[2].receiver_id = reports[1].receiver_id

\* run n builds the overlay in this step
OverlayStep(n) ==
    /\ n \in DOMAIN runs
    /\ runs[n].pc \in {"rendered", "simple_paint"}
    /\ runs'[n].pc = "done"

\* the descriptors run n hands to the overlay renderer in that step
Handed(n) ==
    IF runs[n].comp = "PdfForm" THEN GetFormFields ELSE SimpleFields(runs[n].pdf)

\* the descriptor of that name among those handed over
FieldOf(n, name) ==
    Handed(n)[CHOOSE k \in DOMAIN Handed(n) : Handed(n)[k].name = name]

\* the export value the templates give the checkbox of that name
ExportValueOf(name) ==
    CHOOSE v \in UNION {{Annotations(pdf)[k].exportValue :
                            k \in {j \in DOMAIN Annotations(pdf) :
                                      Annotations(pdf)[j].fieldName = name}} :
                        pdf \in Templates} : TRUE

\* C23: when the user checks a checkbox of the overlay, the value handed to
\* onChange, and so stored in formValues, is the field's export value and not
\* true, whichever component built the overlay.
C23_CheckboxEmitsExportValue ==
    [][ \A k \in DOMAIN surface.children :
          ( /\ runs' = runs
            /\ k \in DOMAIN surface'.children
            /\ surface.children[k].tag = "checkbox"
            /\ surface.children[k].shown = JsFalse
            /\ surface'.children[k].shown = JsTrue )
          => formValues'[surface.children[k].name]
                = ExportValueOf(surface.children[k].name) ]_vars

\* C24: the overlay container holds the elements of one call only, the last
\* one, one for each field of those handed over that has a rectangle (on
\* page 1), also when the runs that call the renderer overlap.
C24_OnlyLastCall ==
    /\ [][ \A n \in 1..MaxRuns :
             OverlayStep(n) =>
                /\ \A k \in DOMAIN surface'.children :
                      /\ surface'.children[k].call = n
                      /\ \E j \in DOMAIN Handed(n) :
                            Handed(n)[j].name = surface'.children[k].name
                /\ \A j \in DOMAIN Handed(n) :
                      ( /\ Handed(n)[j].rect # <<>>
                        /\ runs[n].comp = "PdfForm" => Handed(n)[j].pageNumber = 1 )
                      => \E k \in DOMAIN surface'.children :
                            surface'.children[k].name = Handed(n)[j].name ]_vars
    /\ [](\A j, k \in DOMAIN surface.children :
             /\ surface.children[j].call = surface.children[k].call
             /\ j # k => surface.children[j].name # surface.children[k].name)

\* two runs of PdfForm overlapped, the one started first called the renderer
\* last, and the overlay is the one it built
C24_Witness ==
    /\ Len(runs) = 2
    /\ runs[1].comp = "PdfForm"
    /\ runs[1].pc = "done" /\ runs[2].pc = "done"
    /\ Len(surface.children) = 3
    /\ \A k \in DOMAIN surface.children : surface.children[k].call = 1

\* the template whose page 1 is on the canvas
PageOnCanvas == CHOOSE pdf \in Templates : Raster(pdf) = surface.canvasW

\* C25: a field whose rectangle spans the whole width of the page on the
\* canvas gets an overlay element as wide as the canvas.
C25_FullWidthField ==
    [][ \A n \in 1..MaxRuns :
          OverlayStep(n) =>
             \A k \in DOMAIN surface'.children :
                LET field == FieldOf(n, surface'.children[k].name)
                IN field.rect[2] - field.rect[1] = PageWidth(PageOnCanvas)
                      => surface'.children[k].width = surface.canvasW * Milli ]_vars

\* C26: a call of the overlay renderer leaves one element per descriptor it
\* was handed, none is dropped; a descriptor of a type it does not know gets
\* a placeholder.
C26_NoDescriptorDropped ==
    [][ \A n \in 1..MaxRuns :
          OverlayStep(n) =>
             /\ Len(surface'.children) = Len(Handed(n))
             /\ \A j \in DOMAIN Handed(n) :
                   \E k \in DOMAIN surface'.children :
                      /\ surface'.children[k].name = Handed(n)[j].name
                      /\ Handed(n)[j].type \notin {"text", "checkbox", "choice", "button"}
                            => surface'.children[k].tag = "div" ]_vars

\* C27: what an element shows is the entry of the values map handed to the
\* renderer, also when that entry is false or the empty string: a text input
\* shows the entry, a checkbox is checked exactly when the entry is true or
\* the export value.
C27_ShowsMapEntry ==
    [][ \A n \in 1..MaxRuns :
          OverlayStep(n) =>
             \A k \in DOMAIN surface'.children :
                LET child == surface'.children[k]
                IN child.name \in DOMAIN formValues' =>
                     /\ child.tag \in {"text", "select"}
                           => child.shown = formValues'[child.name]
                     /\ child.tag = "checkbox"
                           => (child.shown = JsTrue <=>
                                 formValues'[child.name]
                                    \in {JsTrue, ExportValueOf(child.name)}) ]_vars

\* C28: when no call of loadPdfForm or renderPdfToCanvas is in flight and one
\* has completed, the document and the fields the module holds are those of
\* the bytes it holds, and the fields are those of the bytes of the call
\* that completed last.
C28_CacheConsistent ==
    ( /\ \A n \in DOMAIN runs : runs[n].pc \notin InCall
      /\ cache.recent # 0 )
    => /\ cache.bytes # 0 /\ cache.fields # 0
       /\ cache.doc # NoDoc => runs[cache.doc[1]].pdf = runs[cache.bytes].pdf
       /\ runs[cache.fields].pdf = runs[cache.bytes].pdf
       /\ runs[cache.fields].pdf = runs[cache.recent].pdf

====
